---- MODULE Spec2Model ----
(***************************************************************************)
(* Version / comment / mockup consistency model of the PDP generator's     *)
(* server (src/server.js).  Every request handler is an async function;    *)
(* each `await supabase...` is one atomic database call, and handlers of   *)
(* different requests interleave between their database calls.  The two    *)
(* handlers that read the current version and write with it later          *)
(* (CutVersion, add comment, delete version) are one action per database   *)
(* call, their locals being kept in req[p] between the calls; the other    *)
(* handlers are one action each.  A response is a function of the request  *)
(* and the state the handler read, so responses are operators, not state.  *)
(***************************************************************************)
EXTENDS Integers, FiniteSets, Sequences, TLC

\* ---------------------------------------------------------------- bounds
MaxVersion == 3      \* no cut is started at this current_version or above
MaxCuts == 3         \* no cut is started once this many were answered or are in flight
MaxReads == 2        \* no read passes the gate once this many were answered or are in flight
MaxViewReads == 3    \* the same, where reads alone run (ViewsSpec)

MockupIds == {"m1"}              \* ids generateId() returns for mockups
CommentIds == {1}                \* ids generateId() returns for comments
VersionIds == {1, 2}             \* ids generateId() returns for versions
Procs == {"p1", "p2"}            \* requests that may be in flight together
Contents == {"c1", "c2"}         \* opaque content documents (req.body.data)
Tokens == {"t1", "t2"}           \* author tokens a request may carry
AuthorTokens == {"t1"}           \* author tokens comments are added with
Bodies == {"b1", "b2"}           \* comment texts

NoPassword == "none"             \* request without a password
NoToken == "none"                \* request without an authorToken
NoVersion == 0                   \* request without a ?version= parameter
Passwords == {"pw1", "pw2"}      \* passwords a request may carry
NullHash == <<>>                 \* password_hash: null
CurrentParam == -1               \* request with ?version=current
CurrentEntryId == 0              \* the id 'current' of the version list's last entry

VersionNumbers == 1 .. MaxVersion

VARIABLES
    mockups,     \* table mockups: rows [id, data, password_hash, current_version, views]
    versions,    \* table versions: rows [id, mockup_id, version_number, data, comments_snapshot]
    comments,    \* table comments: rows [id, mockup_id, version_number, comment, author_token, resolved]
    usedIds,     \* the mockup ids generateId() has returned (none is returned twice)
    req,         \* per request in flight: the handler, its position and its locals
    cuts,        \* per mockup id: how many CutVersion requests were answered success
    reads        \* per mockup id: how many reads of the mockup were answered success

vars == <<mockups, versions, comments, usedIds, req, cuts, reads>>

Idle == [op |-> "idle"]

\* ---------------------------------------------------------------- helpers
\* crypto sha256 digest: deterministic and injective on the passwords used
hashPassword(password) == <<"sha256", password>>

HasMockup(id) == \E m \in mockups : m.id = id
MockupRow(id) == CHOOSE m \in mockups : m.id = id

\* .from('comments').select('*').eq('mockup_id', id).eq('version_number', v)
CommentsOf(id, v) == {c \in comments : c.mockup_id = id /\ c.version_number = v}

\* .from('versions') ... .eq('mockup_id', id).eq('version_number', v)
VersionsOf(id, v) == {s \in versions : s.mockup_id = id /\ s.version_number = v}

\* the row -> response object mapping of the comment list (mockup_id is dropped)
FormatComment(row) ==
    [id |-> row.id, versionNumber |-> row.version_number, comment |-> row.comment,
     authorToken |-> row.author_token, resolved |-> row.resolved]

\* .single(): the one matching row; no data when zero or several rows match
SingleOk(rows) == Cardinality(rows) = 1
Single(rows) == CHOOSE r \in rows : TRUE

\* generateId(): an id no row of the table holds (and no request in flight, for
\* `held`); ids are opaque, so the least free one stands for the random one
generateId(ids, held) == CHOOSE i \in ids \ held : \A j \in ids \ held : i <= j

\* express.json(): JSON.parse of the request body; a number beyond the range of
\* a double ("1e999" stands for a document that holds one) becomes Infinity
JSON_parse(text) == IF text = "1e999" THEN "Infinity" ELSE text

\* JSON.stringify of a value sent to the store or to the client: Infinity is
\* written as null
JSON_stringify(value) == IF value = "Infinity" THEN "null" ELSE value

\* the data column a request's data is stored as: parsed from the request body,
\* serialised again for the store
StoredData(data) == JSON_stringify(JSON_parse(data))

CutsInFlight == {q \in Procs : req[q].op = "cut"}
AddsInFlight == {q \in Procs : req[q].op = "add"}

\* ---------------------------------------------------------------- mockups
\* CreateMockup hashing whatever the request carries, an absent password too;
\* C19_PublicWithoutHash tells the two apart
CreateMockupHashingAlways(id, data, password) ==
    /\ id \notin usedIds
    /\ usedIds' = usedIds \cup {id}
    /\ mockups' = mockups \cup
          {[id |-> id, data |-> StoredData(data), password_hash |-> hashPassword(password),
            current_version |-> 1, views |-> 0]}
    /\ UNCHANGED <<versions, comments, req, cuts, reads>>

\* POST /api/mockups
CreateMockup(id, data, password) ==
    /\ id \notin usedIds
    /\ usedIds' = usedIds \cup {id}
    /\ mockups' = mockups \cup
          {[id |-> id, data |-> StoredData(data),
            password_hash |-> IF password # NoPassword THEN hashPassword(password) ELSE NullHash,
            current_version |-> 1, views |-> 0]}
    /\ UNCHANGED <<versions, comments, req, cuts, reads>>

\* UpdateMockup clearing the password_hash when the request carries no
\* password; C20_UpdatePassword tells the two apart
UpdateMockupClearing(id, data, password) ==
    /\ mockups' = {IF m.id = id
                     THEN [m EXCEPT !.data = StoredData(data),
                                    !.password_hash = IF password # NoPassword
                                                        THEN hashPassword(password)
                                                        ELSE NullHash]
                     ELSE m : m \in mockups}
    /\ UNCHANGED <<versions, comments, usedIds, req, cuts, reads>>

\* UpdateMockup opening a new version with every update;
\* C21_UpdateOnlyContent tells the two apart
UpdateMockupAdvancing(id, data, password) ==
    /\ mockups' = {IF m.id = id
                     THEN [m EXCEPT !.data = StoredData(data),
                                    !.password_hash = IF password # NoPassword
                                                        THEN hashPassword(password) ELSE @,
                                    !.current_version = @ + 1]
                     ELSE m : m \in mockups}
    /\ UNCHANGED <<versions, comments, usedIds, req, cuts, reads>>

\* PUT /api/mockups/:id
UpdateMockup(id, data, password) ==
    /\ mockups' = {IF m.id = id
                     THEN [m EXCEPT !.data = StoredData(data),
                                    !.password_hash = IF password # NoPassword
                                                        THEN hashPassword(password) ELSE @]
                     ELSE m : m \in mockups}
    /\ UNCHANGED <<versions, comments, usedIds, req, cuts, reads>>

\* what the handler answers after its update call returned without an error,
\* whether a row matched id or none did
UpdateAnswer(id) == [status |-> 200, success |-> TRUE, id |-> id]

\* DeleteMockup removing the row of mockups alone, its child rows staying;
\* C23_DeleteLeavesNothing tells the two apart
DeleteMockupRowOnly(id) ==
    /\ mockups' = {m \in mockups : m.id # id}
    /\ UNCHANGED <<versions, comments, usedIds, req, cuts, reads>>

\* DELETE /api/mockups/:id ; the child rows go with the parent (CASCADE)
DeleteMockup(id) ==
    /\ mockups' = {m \in mockups : m.id # id}
    /\ versions' = {s \in versions : s.mockup_id # id}
    /\ comments' = {c \in comments : c.mockup_id # id}
    /\ UNCHANGED <<usedIds, req, cuts, reads>>

\* what the handler answers after its delete call returned without an error
DeleteMockupAnswer == [status |-> 200, success |-> TRUE]

\* ------------------------------------------------------------ CutVersion
\* POST /api/mockups/:id/versions, first database call: select data and
\* current_version of the mockup; 404 when there is none
CutSelectMockup(p, id) ==
    /\ req[p] = Idle
    /\ IF ~HasMockup(id)
         THEN UNCHANGED req
         ELSE /\ MockupRow(id).current_version < MaxVersion
              /\ cuts[id] + Cardinality(CutsInFlight) < MaxCuts
              /\ Cardinality(versions) + Cardinality(CutsInFlight) < Cardinality(VersionIds)
              /\ req' = [req EXCEPT ![p] =
                            [op |-> "cut", pc |-> "selectComments", id |-> id,
                             data |-> MockupRow(id).data,
                             currentVersion |-> MockupRow(id).current_version,
                             snapshot |-> {}, versionId |-> 0,
                             atStart |-> MockupRow(id)]]
    /\ UNCHANGED <<mockups, versions, comments, usedIds, cuts, reads>>

\* CutSelectComments taking every comment of the mockup, whatever its version;
\* C35_SnapshotHoldsItsVersion tells the two apart
CutSelectCommentsOfAllVersions(p, failed) ==
    /\ req[p].op = "cut" /\ req[p].pc = "selectComments"
    /\ req' = [req EXCEPT ![p].pc = "insertVersion",
                          ![p].snapshot = IF failed THEN {}
                                          ELSE {c \in comments : c.mockup_id = req[p].id}]
    /\ UNCHANGED <<mockups, versions, comments, usedIds, cuts, reads>>

\* second database call: the comments of the current version; commentsError is
\* not looked at: a failed select leaves comments null, and `comments || []` is []
CutSelectComments(p, failed) ==
    /\ req[p].op = "cut" /\ req[p].pc = "selectComments"
    /\ req' = [req EXCEPT ![p].pc = "insertVersion",
                          ![p].snapshot = IF failed THEN {}
                                          ELSE CommentsOf(req[p].id, req[p].currentVersion)]
    /\ UNCHANGED <<mockups, versions, comments, usedIds, cuts, reads>>

\* ArchiveRow numbering the row with the version the cut opens instead of the
\* one it closes; C4_CutAddsOneSnapshot tells the two apart
ArchiveRowOfOpenedVersion(versionId, id, currentVersion, data, snapshot) ==
    [id |-> versionId, mockup_id |-> id, version_number |-> currentVersion + 1,
     data |-> data, comments_snapshot |-> snapshot]

\* the row the third database call inserts into versions
ArchiveRow(versionId, id, currentVersion, data, snapshot) ==
    [id |-> versionId, mockup_id |-> id, version_number |-> currentVersion,
     data |-> data, comments_snapshot |-> snapshot]

\* third database call: insert the archive row; versionError (a storage failure,
\* or the foreign key when the mockup is gone) is thrown and answered 500
CutInsertVersion(p, failed) ==
    /\ req[p].op = "cut" /\ req[p].pc = "insertVersion"
    /\ IF failed \/ ~HasMockup(req[p].id)
         THEN /\ req' = [req EXCEPT ![p] = Idle]
              /\ UNCHANGED versions
         ELSE LET versionId == generateId(VersionIds, {s.id : s \in versions})
              IN  /\ versions' = versions \cup
                         {ArchiveRow(versionId, req[p].id, req[p].currentVersion,
                                     req[p].data, req[p].snapshot)}
                  /\ req' = [req EXCEPT ![p].pc = "updateVersion",
                                        ![p].versionId = versionId]
    /\ UNCHANGED <<mockups, comments, usedIds, cuts, reads>>

\* AdvanceVersion starting the new version with a views counter of 0;
\* C29_CutIsCheckpoint tells the two apart
AdvanceVersionResettingViews(id, newVersion) ==
    {IF m.id = id THEN [m EXCEPT !.current_version = newVersion, !.views = 0] ELSE m
     : m \in mockups}

\* what the fourth database call writes: current_version of mockup id
AdvanceVersion(id, newVersion) ==
    {IF m.id = id THEN [m EXCEPT !.current_version = newVersion] ELSE m : m \in mockups}

\* fourth database call: update current_version to currentVersion + 1; updateError
\* is thrown and answered 500, otherwise the handler answers success
CutUpdateVersion(p, failed) ==
    /\ req[p].op = "cut" /\ req[p].pc = "updateVersion"
    /\ req' = [req EXCEPT ![p] = Idle]
    /\ IF failed
         THEN UNCHANGED <<mockups, cuts>>
         ELSE /\ mockups' = AdvanceVersion(req[p].id, req[p].currentVersion + 1)
              /\ cuts' = [cuts EXCEPT ![req[p].id] = @ + 1]
    /\ UNCHANGED <<versions, comments, usedIds, reads>>

\* -------------------------------------------------------------- comments
\* CommentRow binding the comment to the version after the one the add read;
\* C28_AddStoresOneComment tells the two apart
CommentRowOfNextVersion(commentId, id, versionNumber, comment, authorToken) ==
    [id |-> commentId, mockup_id |-> id, version_number |-> versionNumber + 1,
     comment |-> comment, author_token |-> authorToken, resolved |-> FALSE]

\* the row POST /api/mockups/:id/comments inserts
CommentRow(commentId, id, versionNumber, comment, authorToken) ==
    [id |-> commentId, mockup_id |-> id, version_number |-> versionNumber,
     comment |-> comment, author_token |-> authorToken, resolved |-> FALSE]

\* add, first database call: the mockup's current_version (1 when there is none);
\* ids: the ids generateId() returns for comments
AddSelectMockupFrom(ids, p, id, comment, authorToken) ==
    /\ req[p] = Idle
    /\ Cardinality(comments) + Cardinality(AddsInFlight) < Cardinality(ids)
    /\ req' = [req EXCEPT ![p] =
                  [op |-> "add", pc |-> "insertComment", id |-> id,
                   commentId |-> generateId(ids,
                                     {c.id : c \in comments} \cup
                                     {req[q].commentId : q \in AddsInFlight}),
                   versionNumber |-> IF HasMockup(id) THEN MockupRow(id).current_version ELSE 1,
                   comment |-> comment, authorToken |-> authorToken]]
    /\ UNCHANGED <<mockups, versions, comments, usedIds, cuts, reads>>

AddSelectMockup(p, id, comment, authorToken) ==
    AddSelectMockupFrom(CommentIds, p, id, comment, authorToken)

\* add, second database call: insert; the foreign key rejects an unknown mockup
AddInsertComment(p) ==
    /\ req[p].op = "add" /\ req[p].pc = "insertComment"
    /\ req' = [req EXCEPT ![p] = Idle]
    /\ IF ~HasMockup(req[p].id)
         THEN UNCHANGED comments
         ELSE comments' = comments \cup
                 {CommentRow(req[p].commentId, req[p].id, req[p].versionNumber,
                             req[p].comment, req[p].authorToken)}
    /\ UNCHANGED <<mockups, versions, usedIds, cuts, reads>>

\* EditComment moving the edited comment to its mockup's current version;
\* C12_CommentVersionFixed tells the two apart
EditCommentRebinding(commentId, comment, authorToken) ==
    /\ IF \E c \in comments : c.id = commentId /\ c.author_token # authorToken
         THEN UNCHANGED comments
         ELSE comments' = {IF c.id = commentId
                             THEN [c EXCEPT !.comment = comment,
                                            !.version_number =
                                                IF HasMockup(c.mockup_id)
                                                  THEN MockupRow(c.mockup_id).current_version
                                                  ELSE @]
                             ELSE c
                           : c \in comments}
    /\ UNCHANGED <<mockups, versions, usedIds, req, cuts, reads>>

\* EditComment comparing the author_token only when the request supplies one;
\* C24_EditNeedsExactToken tells the two apart
EditCommentUnlessMismatch(commentId, comment, authorToken) ==
    /\ IF /\ authorToken # NoToken
          /\ \E c \in comments : c.id = commentId /\ c.author_token # authorToken
         THEN UNCHANGED comments
         ELSE comments' = {IF c.id = commentId THEN [c EXCEPT !.comment = comment] ELSE c
                           : c \in comments}
    /\ UNCHANGED <<mockups, versions, usedIds, req, cuts, reads>>

\* PUT /api/mockups/:id/comments/:commentId : 403 when the stored author_token
\* differs from the one supplied, else update comment where id = commentId
EditComment(commentId, comment, authorToken) ==
    /\ IF \E c \in comments : c.id = commentId /\ c.author_token # authorToken
         THEN UNCHANGED comments
         ELSE comments' = {IF c.id = commentId THEN [c EXCEPT !.comment = comment] ELSE c
                           : c \in comments}
    /\ UNCHANGED <<mockups, versions, usedIds, req, cuts, reads>>

\* what the edit handler answers: 403 when a row of that id has another
\* author_token, else success, whether a row matched commentId or none did
EditAnswer(commentId, authorToken) ==
    IF \E c \in comments : c.id = commentId /\ c.author_token # authorToken
      THEN [status |-> 403, success |-> FALSE, error |-> "Not authorized to edit this comment"]
      ELSE [status |-> 200, success |-> TRUE]

\* DELETE /api/mockups/:id/comments/:commentId : the author_token is compared
\* only when the request supplies one; else delete where id = commentId
RemoveComment(commentId, authorToken) ==
    /\ IF /\ authorToken # NoToken
          /\ \E c \in comments : c.id = commentId /\ c.author_token # authorToken
         THEN UNCHANGED comments
         ELSE comments' = {c \in comments : c.id # commentId}
    /\ UNCHANGED <<mockups, versions, usedIds, req, cuts, reads>>

\* what the remove handler answers: 403 when the request supplies a token and a
\* row of that id has another, else success, whether a row matched or none did
RemoveAnswer(commentId, authorToken) ==
    IF /\ authorToken # NoToken
       /\ \E c \in comments : c.id = commentId /\ c.author_token # authorToken
      THEN [status |-> 403, success |-> FALSE,
            error |-> "Not authorized to delete this comment"]
      ELSE [status |-> 200, success |-> TRUE]

\* DELETE /api/mockups/:id/comments
RemoveAllComments(id) ==
    /\ comments' = {c \in comments : c.mockup_id # id}
    /\ UNCHANGED <<mockups, versions, usedIds, req, cuts, reads>>

\* PUT /api/mockups/:id/comments/:commentId/resolve
ResolveComment(commentId, resolved) ==
    /\ comments' = {IF c.id = commentId THEN [c EXCEPT !.resolved = resolved] ELSE c
                    : c \in comments}
    /\ UNCHANGED <<mockups, versions, usedIds, req, cuts, reads>>

\* what the resolve handler answers after its update call returned without an
\* error, whether a row matched commentId or none did
ResolveAnswer == [status |-> 200, success |-> TRUE]

\* what GET /api/mockups/:id/comments answers when its select of the live
\* comments returns an error: with ?version=current the handler selects the rows
\* whose integer version_number equals the text 'current', which the store
\* rejects
ListCommentsFailure == [status |-> 500, success |-> FALSE, error |-> "Failed to get comments"]

\* what GET /api/mockups/:id/comments answers (version: a number, or NoVersion
\* when the query has none): the snapshot of the archive row of that version when
\* .single() yields one, else the live rows of the version asked for
ListComments(id, version) ==
    LET versionToQuery ==
            IF version # NoVersion THEN version
            ELSE IF HasMockup(id) THEN MockupRow(id).current_version ELSE 1
    IN  IF version = CurrentParam
          THEN ListCommentsFailure
        ELSE IF version # NoVersion /\ SingleOk(VersionsOf(id, version))
          THEN [isArchived |-> TRUE, version |-> version,
                comments |-> {FormatComment(r) :
                                r \in Single(VersionsOf(id, version)).comments_snapshot}]
          ELSE [isArchived |-> FALSE, version |-> versionToQuery,
                comments |-> {FormatComment(r) : r \in CommentsOf(id, versionToQuery)}]

\* GET /api/mockups/:id/comments : answers ListComments(id, version), writes nothing
GetComments(id, version) ==
    /\ IF version = CurrentParam THEN TRUE
       ELSE ListComments(id, version).version \in VersionNumbers
    /\ UNCHANGED vars

\* -------------------------------------------------------------- versions
\* DeleteSelectMockup rejecting only a versionNum above current_version;
\* C13_DeleteCurrentRejected tells the two apart
DeleteSelectMockupAbove(p, id, versionNum) ==
    /\ req[p] = Idle
    /\ IF HasMockup(id) /\ versionNum > MockupRow(id).current_version
         THEN UNCHANGED req
         ELSE req' = [req EXCEPT ![p] =
                         [op |-> "deleteVersion", pc |-> "deleteRows", id |-> id,
                          versionNum |-> versionNum]]
    /\ UNCHANGED <<mockups, versions, comments, usedIds, cuts, reads>>

\* DELETE /api/mockups/:id/versions/:versionNum, first database call: select
\* current_version; 400 when the mockup exists and versionNum is not below it
DeleteSelectMockup(p, id, versionNum) ==
    /\ req[p] = Idle
    /\ IF HasMockup(id) /\ versionNum >= MockupRow(id).current_version
         THEN UNCHANGED req
         ELSE req' = [req EXCEPT ![p] =
                         [op |-> "deleteVersion", pc |-> "deleteRows", id |-> id,
                          versionNum |-> versionNum]]
    /\ UNCHANGED <<mockups, versions, comments, usedIds, cuts, reads>>

\* DeleteVersionRows deleting the rows of versionNum of every mockup;
\* C14_DeleteRemovesOnlyThatVersion tells the two apart
DeleteVersionRowsOfAll(p) ==
    /\ req[p].op = "deleteVersion" /\ req[p].pc = "deleteRows"
    /\ req' = [req EXCEPT ![p] = Idle]
    /\ versions' = {s \in versions : s.version_number # req[p].versionNum}
    /\ UNCHANGED <<mockups, comments, usedIds, cuts, reads>>

\* second database call: delete the rows of (id, versionNum)
DeleteVersionRows(p) ==
    /\ req[p].op = "deleteVersion" /\ req[p].pc = "deleteRows"
    /\ req' = [req EXCEPT ![p] = Idle]
    /\ versions' = versions \ VersionsOf(req[p].id, req[p].versionNum)
    /\ UNCHANGED <<mockups, comments, usedIds, cuts, reads>>

\* what the handler answers when the guard rejects the request
DeleteGuardAnswer ==
    [status |-> 400, success |-> FALSE, error |-> "Cannot delete current version"]

\* what the handler answers after its delete call returned without an error,
\* however many rows the call deleted
DeleteRowsAnswer(versionNum) ==
    [status |-> 200, success |-> TRUE, deletedVersion |-> versionNum]

\* GET /api/mockups/:id/versions : the entries of the answer (the answer orders
\* them by version_number, descending; the entries are kept as a set here)
ListVersions(id) ==
    {[id |-> s.id, versionNumber |-> s.version_number] : s \in {t \in versions : t.mockup_id = id}}

\* ------------------------------------------------------------------ read
\* GET /api/mockups/:id?password=&version= . The gate: what the handler answers
\* right after its select of the mockup when it goes no further
NotFoundAnswer == [status |-> 404, success |-> FALSE, error |-> "Mockup not found"]
PasswordRequiredAnswer == [status |-> 200, success |-> FALSE, passwordProtected |-> TRUE]
InvalidPasswordAnswer == [status |-> 401, success |-> FALSE, error |-> "Invalid password"]

\* ReadRejected letting a request without a password through;
\* C18_PasswordGate tells the two apart
ReadRejectedOnMismatch(id, password) ==
    \/ ~HasMockup(id)
    \/ /\ MockupRow(id).password_hash # NullHash
       /\ password # NoPassword
       /\ hashPassword(password) # MockupRow(id).password_hash

\* the handler returns at the gate: no mockup, or a password_hash and no
\* password, or a password_hash and a password whose hash differs
ReadRejected(id, password) ==
    \/ ~HasMockup(id)
    \/ /\ MockupRow(id).password_hash # NullHash
       /\ \/ password = NoPassword
          \/ hashPassword(password) # MockupRow(id).password_hash

ReadRejection(id, password) ==
    IF ~HasMockup(id) THEN NotFoundAnswer
    ELSE IF password = NoPassword THEN PasswordRequiredAnswer
    ELSE InvalidPasswordAnswer

\* the columns of the selected row the handler uses after the gate
ReadLocals(row) ==
    [data |-> JSON_parse(row.data), views |-> row.views,
     current_version |-> row.current_version]

ReadsInFlight == {q \in Procs : req[q].op = "read"}

\* first database call: select the mockup, then the gate; maxReads: no read
\* passes the gate once that many were answered or are in flight
ReadSelectMockupWithin(maxReads, p, id, password, version) ==
    /\ req[p] = Idle
    /\ IF ReadRejected(id, password)
         THEN UNCHANGED req
         ELSE /\ reads[id] + Cardinality(ReadsInFlight) < maxReads
              /\ req' = [req EXCEPT ![p] =
                            [op |-> "read", pc |-> "updateViews", id |-> id,
                             version |-> version, mockup |-> ReadLocals(MockupRow(id)),
                             versionsData |-> {}]]
    /\ UNCHANGED <<mockups, versions, comments, usedIds, cuts, reads>>

ReadSelectMockup(p, id, password, version) ==
    ReadSelectMockupWithin(MaxReads, p, id, password, version)

\* what the second database call writes: views of mockup id
SetViews(id, views) ==
    {IF m.id = id THEN [m EXCEPT !.views = views] ELSE m : m \in mockups}

\* second database call: update views to the views read + 1; the result of the
\* call is not looked at
ReadUpdateViews(p, failed) ==
    /\ req[p].op = "read" /\ req[p].pc = "updateViews"
    /\ req' = [req EXCEPT ![p].pc = "selectVersions"]
    /\ IF failed
         THEN UNCHANGED mockups
         ELSE mockups' = SetViews(req[p].id, req[p].mockup.views + 1)
    /\ UNCHANGED <<versions, comments, usedIds, cuts, reads>>

\* rows ordered by version_number, ascending (rows of one version_number, which
\* the store may return in any order, by id)
RECURSIVE OrderAscending(_)
OrderAscending(rows) ==
    IF rows = {} THEN <<>>
    ELSE LET first == CHOOSE r \in rows :
                          \A s \in rows :
                              \/ r.version_number < s.version_number
                              \/ r.version_number = s.version_number /\ r.id <= s.id
         IN  <<first>> \o OrderAscending(rows \ {first})

\* the version list of the answer: the archive rows, then the current version
ReadVersionList(mockup, versionsData) ==
    LET ordered == OrderAscending(versionsData)
    IN  [k \in 1 .. Len(ordered) |->
            [id |-> ordered[k].id, versionNumber |-> ordered[k].version_number,
             isCurrent |-> FALSE]]
        \o <<[id |-> CurrentEntryId, versionNumber |-> mockup.current_version,
              isCurrent |-> TRUE]>>

\* a third select, of the archive row, is made for this version parameter
ArchivedRequested(mockup, version) ==
    version # NoVersion /\ version # CurrentParam /\ version # mockup.current_version

\* ReadAnswer naming the version asked for also when it answers with the live
\* data; C37_ViewingVersionNamesContent tells the two apart
ReadAnswerNamingRequested(mockup, version, versionsData, rows) ==
    IF ArchivedRequested(mockup, version)
      THEN [status |-> 200, success |-> TRUE,
            data |-> IF SingleOk(rows) THEN JSON_stringify(JSON_parse(Single(rows).data))
                     ELSE JSON_stringify(mockup.data),
            views |-> mockup.views + 1, currentVersion |-> mockup.current_version,
            viewingVersion |-> version,
            versions |-> ReadVersionList(mockup, versionsData)]
      ELSE [status |-> 200, success |-> TRUE, data |-> JSON_stringify(mockup.data),
            views |-> mockup.views + 1, currentVersion |-> mockup.current_version,
            viewingVersion |-> mockup.current_version,
            versions |-> ReadVersionList(mockup, versionsData)]

\* the answer of a read that passed the gate: the data of the archive row when
\* one was asked for and .single() yielded it (rows: what matched), else the
\* live data the first select read
ReadAnswer(mockup, version, versionsData, rows) ==
    IF ArchivedRequested(mockup, version) /\ SingleOk(rows)
      THEN [status |-> 200, success |-> TRUE,
            data |-> JSON_stringify(JSON_parse(Single(rows).data)),
            views |-> mockup.views + 1, currentVersion |-> mockup.current_version,
            viewingVersion |-> version,
            versions |-> ReadVersionList(mockup, versionsData)]
      ELSE [status |-> 200, success |-> TRUE, data |-> JSON_stringify(mockup.data),
            views |-> mockup.views + 1, currentVersion |-> mockup.current_version,
            viewingVersion |-> mockup.current_version,
            versions |-> ReadVersionList(mockup, versionsData)]

\* third database call: select the archive rows of the mockup; the handler
\* answers with the live data unless an archived version is asked for
ReadSelectVersions(p) ==
    /\ req[p].op = "read" /\ req[p].pc = "selectVersions"
    /\ LET versionsData == {s \in versions : s.mockup_id = req[p].id}
       IN  IF ArchivedRequested(req[p].mockup, req[p].version)
             THEN /\ req' = [req EXCEPT ![p].pc = "selectVersion",
                                        ![p].versionsData = versionsData]
                  /\ UNCHANGED reads
             ELSE /\ req' = [req EXCEPT ![p] = Idle]
                  /\ reads' = [reads EXCEPT ![req[p].id] = @ + 1]
    /\ UNCHANGED <<mockups, versions, comments, usedIds, cuts>>

\* fourth database call: select the archive row of the version asked for, and
\* answer ReadAnswer(mockup, version, versionsData, VersionsOf(id, version))
ReadSelectVersion(p) ==
    /\ req[p].op = "read" /\ req[p].pc = "selectVersion"
    /\ req' = [req EXCEPT ![p] = Idle]
    /\ reads' = [reads EXCEPT ![req[p].id] = @ + 1]
    /\ UNCHANGED <<mockups, versions, comments, usedIds, cuts>>

\* ---------------------------------------------------------------- routes
\* the operations the owner alone is meant to call
OwnerOps == {"create", "update", "cut", "deleteMockup", "removeAll", "resolve",
             "deleteVersion"}

\* whether the route of op runs its handler for a request (ownerAuth: the request
\* carries valid owner authentication): every route is registered with its
\* handler alone, no middleware before it, and no handler reads a credential
Admitted(op, ownerAuth) == TRUE

\* ---------------------------------------------------------- specification
Init ==
    /\ mockups = {}
    /\ versions = {}
    /\ comments = {}
    /\ usedIds = {}
    /\ req = [p \in Procs |-> Idle]
    /\ cuts = [i \in MockupIds |-> 0]
    /\ reads = [i \in MockupIds |-> 0]

Next ==
    \/ \E i \in MockupIds, d \in Contents : CreateMockup(i, d, NoPassword)
    \/ \E i \in MockupIds, d \in Contents : UpdateMockup(i, d, NoPassword)
    \/ \E i \in MockupIds : DeleteMockup(i)
    \/ \E p \in Procs, i \in MockupIds : CutSelectMockup(p, i)
    \/ \E p \in Procs, f \in BOOLEAN : CutSelectComments(p, f)
    \/ \E p \in Procs, f \in BOOLEAN : CutInsertVersion(p, f)
    \/ \E p \in Procs, f \in BOOLEAN : CutUpdateVersion(p, f)
    \/ \E p \in Procs, i \in MockupIds, b \in Bodies, t \in AuthorTokens :
          AddSelectMockup(p, i, b, t)
    \/ \E p \in Procs : AddInsertComment(p)
    \/ \E c \in CommentIds, b \in Bodies, t \in Tokens \cup {NoToken} : EditComment(c, b, t)
    \/ \E c \in CommentIds, t \in Tokens \cup {NoToken} : RemoveComment(c, t)
    \/ \E i \in MockupIds : RemoveAllComments(i)
    \/ \E c \in CommentIds, r \in BOOLEAN : ResolveComment(c, r)
    \/ \E i \in MockupIds, v \in {NoVersion} \cup VersionNumbers : GetComments(i, v)
    \/ \E p \in Procs, i \in MockupIds, v \in VersionNumbers : DeleteSelectMockup(p, i, v)
    \/ \E p \in Procs : DeleteVersionRows(p)

Spec == Init /\ [][Next]_vars

\* ------------------------------------------- two mockups, their versions
\* The version operations on two mockups side by side (no comments): what an
\* operation on one mockup does to the rows of the other.
TwoMockupIds == {"m1", "m2"}

InitTwo ==
    /\ mockups = {}
    /\ versions = {}
    /\ comments = {}
    /\ usedIds = {}
    /\ req = [p \in Procs |-> Idle]
    /\ cuts = [i \in TwoMockupIds |-> 0]
    /\ reads = [i \in TwoMockupIds |-> 0]

NextTwo ==
    \/ \E i \in TwoMockupIds, d \in Contents : CreateMockup(i, d, NoPassword)
    \/ \E i \in TwoMockupIds : DeleteMockup(i)
    \/ \E p \in Procs, i \in TwoMockupIds : CutSelectMockup(p, i)
    \/ \E p \in Procs, f \in BOOLEAN : CutSelectComments(p, f)
    \/ \E p \in Procs, f \in BOOLEAN : CutInsertVersion(p, f)
    \/ \E p \in Procs, f \in BOOLEAN : CutUpdateVersion(p, f)
    \/ \E p \in Procs, i \in TwoMockupIds, v \in VersionNumbers : DeleteSelectMockup(p, i, v)
    \/ \E p \in Procs : DeleteVersionRows(p)

SpecTwo == InitTwo /\ [][NextTwo]_vars

\* ------------------------------------------- reads, passwords and views
\* Create, update, delete, cut and read of one mockup (no comments): passwords
\* and the view counter.  The store fails the views write of a read or not; the
\* calls of a cut succeed here (their failures are part of Spec).
CutProcs == {"p1"}               \* the requests that may be a cut: one at a time

ReadNext ==
    \/ \E i \in MockupIds, d \in Contents, w \in {NoPassword, "pw1"} : CreateMockup(i, d, w)
    \/ \E i \in MockupIds, d \in Contents, w \in {NoPassword, "pw2"} : UpdateMockup(i, d, w)
    \/ \E i \in MockupIds : DeleteMockup(i)
    \/ \E p \in CutProcs, i \in MockupIds : CutSelectMockup(p, i)
    \/ \E p \in Procs, f \in {FALSE} : CutSelectComments(p, f)
    \/ \E p \in Procs, f \in {FALSE} : CutInsertVersion(p, f)
    \/ \E p \in Procs, f \in {FALSE} : CutUpdateVersion(p, f)
    \/ \E p \in Procs, i \in MockupIds, w \in Passwords \cup {NoPassword},
          v \in {NoVersion, CurrentParam} \cup VersionNumbers : ReadSelectMockup(p, i, w, v)
    \/ \E p \in Procs, f \in BOOLEAN : ReadUpdateViews(p, f)
    \/ \E p \in Procs : ReadSelectVersions(p)
    \/ \E p \in Procs : ReadSelectVersion(p)

ReadSpec == Init /\ [][ReadNext]_vars

\* ------------------------------------------------- the ledger of comments
\* One mockup with up to two comments: update, delete and cut of the mockup
\* beside add, edit and remove of its comments.  One cut and one add at a time,
\* the calls of the cut succeeding (overlapping and failing cuts are part of
\* Spec); comments are added with the text "b1" and edited to "b2".
LedgerCommentIds == {1, 2}       \* ids generateId() returns for comments here

LedgerNext ==
    \/ \E i \in MockupIds, d \in {"c1"} : CreateMockup(i, d, NoPassword)
    \/ \E i \in MockupIds, d \in {"c2"} : UpdateMockup(i, d, NoPassword)
    \/ \E i \in MockupIds : DeleteMockup(i)
    \/ \E p \in CutProcs, i \in MockupIds : CutSelectMockup(p, i)
    \/ \E p \in Procs, f \in {FALSE} : CutSelectComments(p, f)
    \/ \E p \in Procs, f \in {FALSE} : CutInsertVersion(p, f)
    \/ \E p \in Procs, f \in {FALSE} : CutUpdateVersion(p, f)
    \/ \E p \in Procs \ CutProcs, i \in MockupIds, b \in {"b1"}, t \in AuthorTokens :
          AddSelectMockupFrom(LedgerCommentIds, p, i, b, t)
    \/ \E p \in Procs : AddInsertComment(p)
    \/ \E c \in LedgerCommentIds, b \in {"b2"}, t \in Tokens \cup {NoToken} :
          EditComment(c, b, t)
    \/ \E c \in LedgerCommentIds, t \in Tokens \cup {NoToken} : RemoveComment(c, t)
    \/ \E i \in MockupIds, v \in {NoVersion, CurrentParam} : GetComments(i, v)

LedgerSpec == Init /\ [][LedgerNext]_vars

\* ------------------------------------------------ content there and back
\* Create and read of one mockup, the request body's data being any document a
\* client may send.
JsonDocuments == Contents \cup {"1e999"}

RoundTripNext ==
    \/ \E i \in MockupIds, d \in JsonDocuments : CreateMockup(i, d, NoPassword)
    \/ \E i \in MockupIds : DeleteMockup(i)
    \/ \E p \in Procs, i \in MockupIds, v \in {NoVersion, CurrentParam} :
          ReadSelectMockup(p, i, NoPassword, v)
    \/ \E p \in Procs, f \in BOOLEAN : ReadUpdateViews(p, f)
    \/ \E p \in Procs : ReadSelectVersions(p)

RoundTripSpec == Init /\ [][RoundTripNext]_vars

\* -------------------------------------------- two mockups, their comments
\* Two mockups with comments: cut of either mockup beside add, resolve and
\* remove of the comments.  One cut and one add at a time.
TwoLedgerNext ==
    \/ \E i \in TwoMockupIds, d \in {"c1"} : CreateMockup(i, d, NoPassword)
    \/ \E p \in CutProcs, i \in TwoMockupIds : CutSelectMockup(p, i)
    \/ \E p \in Procs, f \in {FALSE} : CutSelectComments(p, f)
    \/ \E p \in Procs, f \in {FALSE} : CutInsertVersion(p, f)
    \/ \E p \in Procs, f \in {FALSE} : CutUpdateVersion(p, f)
    \/ \E p \in Procs \ CutProcs, i \in TwoMockupIds, b \in {"b1"}, t \in AuthorTokens :
          AddSelectMockupFrom(LedgerCommentIds, p, i, b, t)
    \/ \E p \in Procs : AddInsertComment(p)
    \/ \E c \in LedgerCommentIds, t \in {NoToken} : RemoveComment(c, t)
    \/ \E c \in LedgerCommentIds, r \in {TRUE} : ResolveComment(c, r)

TwoLedgerSpec == InitTwo /\ [][TwoLedgerNext]_vars

\* ------------------------------------------------------ overlapping reads
\* Reads of one public mockup, up to MaxViewReads of them, two at a time.
ViewsNext ==
    \/ \E i \in MockupIds, d \in {"c1"} : CreateMockup(i, d, NoPassword)
    \/ \E p \in Procs, i \in MockupIds, v \in {NoVersion, CurrentParam} :
          ReadSelectMockupWithin(MaxViewReads, p, i, NoPassword, v)
    \/ \E p \in Procs, f \in BOOLEAN : ReadUpdateViews(p, f)
    \/ \E p \in Procs : ReadSelectVersions(p)

ViewsSpec == Init /\ [][ViewsNext]_vars

\* ------------------------------------------ reads beside overlapping cuts
\* Reads of the versions of one public mockup whose cuts may overlap.
ArchiveNext ==
    \/ \E i \in MockupIds, d \in {"c1"} : CreateMockup(i, d, NoPassword)
    \/ \E i \in MockupIds, d \in {"c2"} : UpdateMockup(i, d, NoPassword)
    \/ \E p \in Procs, i \in MockupIds : CutSelectMockup(p, i)
    \/ \E p \in Procs, f \in {FALSE} : CutSelectComments(p, f)
    \/ \E p \in Procs, f \in {FALSE} : CutInsertVersion(p, f)
    \/ \E p \in Procs, f \in {FALSE} : CutUpdateVersion(p, f)
    \/ \E p \in Procs, i \in MockupIds, v \in VersionNumbers :
          ReadSelectMockup(p, i, NoPassword, v)
    \/ \E p \in Procs, f \in {FALSE} : ReadUpdateViews(p, f)
    \/ \E p \in Procs : ReadSelectVersions(p)
    \/ \E p \in Procs : ReadSelectVersion(p)

ArchiveSpec == Init /\ [][ArchiveNext]_vars

\* ------------------------------------------------------------ the claims
\* p's CutVersion is answered in this step, and answered success
CutSucceeds(p) ==
    /\ req[p].op = "cut" /\ req[p].pc = "updateVersion" /\ req'[p] = Idle
    /\ cuts'[req[p].id] = cuts[req[p].id] + 1

\* p's CutVersion is answered 500 in this step
CutFails(p) ==
    /\ req[p].op = "cut" /\ req'[p] = Idle
    /\ cuts'[req[p].id] = cuts[req[p].id]

\* p's CutVersion inserts its archive row in this step
CutInserts(p) ==
    /\ req[p].op = "cut" /\ req[p].pc = "insertVersion"
    /\ req'[p].op = "cut" /\ req'[p].pc = "updateVersion"

\* C1: a mockup's currentVersion is 1 + the number of CutVersion requests on it
\* that were answered success.
C1_VersionCountsCuts ==
    \A m \in mockups : m.current_version = 1 + cuts[m.id]

\* C2: there is at most one VersionSnapshot per (mockupId, versionNumber).
C2_OneSnapshotPerVersion ==
    \A s, t \in versions :
        (s.mockup_id = t.mockup_id /\ s.version_number = t.version_number) => s = t

\* C3: in every state, also between the steps of a cut, every snapshot of a
\* mockup has a versionNumber below the mockup's currentVersion.
C3_SnapshotBelowCurrent ==
    \A s \in versions : \A m \in mockups :
        m.id = s.mockup_id => s.version_number < m.current_version

\* C4: a cut adds exactly one snapshot, in the step that inserts it; the row
\* carries the currentVersion and the content the mockup had when the cut read
\* it, and no step of a cut adds another row, removes one or changes one.
C4_CutAddsOneSnapshot ==
    [][\A p \in Procs :
          /\ CutInserts(p) =>
                \E r \in versions' \ versions :
                    /\ versions' = versions \cup {r}
                    /\ r.mockup_id = req[p].id
                    /\ r.version_number = req[p].atStart.current_version
                    /\ r.data = req[p].atStart.data
          /\ ((req[p].op = "cut" \/ req'[p].op = "cut") /\ req'[p] # req[p] /\ ~CutInserts(p))
                => versions' = versions
          /\ CutSucceeds(p) => req[p].versionId \in VersionIds
      ]_vars

\* C4 witness: a cut has inserted its row and is about to advance the counter,
\* the live content having been replaced since the cut read it.
C4_Witness ==
    \E p \in Procs :
        /\ req[p].op = "cut" /\ req[p].pc = "updateVersion"
        /\ \E r \in versions : r.id = req[p].versionId /\ r.data = req[p].atStart.data
        /\ HasMockup(req[p].id) /\ MockupRow(req[p].id).data # req[p].atStart.data

\* C5: a cut that is answered with a failure leaves no snapshot of its own
\* behind and leaves currentVersion as it was.
C5_FailedCutLeavesNothing ==
    [][\A p \in Procs :
          CutFails(p) =>
              /\ \A s \in versions' :
                    ~(s.mockup_id = req[p].id /\ s.id = req[p].versionId)
              /\ mockups' = mockups
      ]_vars

\* C6: in every step a mockup's currentVersion stays, or goes up by exactly 1 in
\* the step that answers one CutVersion with success.
C6_VersionMonotone ==
    [][\A m \in mockups : \A n \in mockups' :
          n.id = m.id =>
              \/ n.current_version = m.current_version
              \/ /\ n.current_version = m.current_version + 1
                 /\ \E p \in Procs : CutSucceeds(p) /\ req[p].id = m.id
      ]_vars

\* C7: when a cut of version v is answered success, the comment list without a
\* version is empty and the list of version v is the live comments of v.
C7_CutFreezesComments ==
    [][\A p \in Procs : \A i \in MockupIds : \A v \in VersionNumbers :
          (CutSucceeds(p) /\ req[p].id = i /\ req[p].currentVersion = v /\ HasMockup(i)) =>
              /\ ListComments(i, NoVersion)'.comments = {}
              /\ ListComments(i, v)'.comments = {FormatComment(c) : c \in CommentsOf(i, v)}
      ]_vars

\* C8: once version v of a mockup is archived, no step that writes the comment
\* ledger changes the answer of the comment list of version v.
C8_ArchivedListFrozen ==
    [][\A s \in versions :
          (/\ comments' # comments /\ mockups' = mockups /\ HasMockup(s.mockup_id)
           /\ s.version_number < MockupRow(s.mockup_id).current_version) =>
              ListComments(s.mockup_id, s.version_number)' =
                  ListComments(s.mockup_id, s.version_number)
      ]_vars

\* C9: a snapshot that exists before and after a step is the same row; rows are
\* added only by the insert of a cut, and removed only by a deleteVersion of a
\* version below the mockup's currentVersion or by the deletion of their mockup.
C9_SnapshotsImmutable ==
    [][/\ \A s \in versions : \A t \in versions' : t.id = s.id => t = s
       /\ versions' \ versions # {} => \E p \in Procs : CutInserts(p)
       /\ versions \ versions' # {} =>
             \/ \E p \in Procs :
                   /\ DeleteVersionRows(p)
                   /\ req[p].versionNum < MockupRow(req[p].id).current_version
             \/ \E i \in MockupIds :
                   /\ DeleteMockup(i)
                   /\ versions \ versions' = {s \in versions : s.mockup_id = i}
      ]_vars

\* C10: every stored comment is bound to its mockup's currentVersion or to the
\* versionNumber of an existing snapshot of that mockup.
C10_CommentBoundToVersion ==
    \A c \in comments : \A m \in mockups :
        m.id = c.mockup_id =>
            \/ c.version_number = m.current_version
            \/ \E s \in versions :
                  s.mockup_id = m.id /\ s.version_number = c.version_number

\* C11: when a cut is answered success, every comment of the mockup left in the
\* ledger is bound to the new currentVersion.
C11_LedgerHoldsCurrentOnly ==
    [][\A p \in Procs : \A i \in MockupIds :
          (CutSucceeds(p) /\ req[p].id = i /\ HasMockup(i)) =>
              \A c \in comments' :
                  c.mockup_id = i => c.version_number = MockupRow(i)'.current_version
      ]_vars

\* C12: in every step, a comment that is stored before and after the step keeps
\* its version_number.
C12_CommentVersionFixed ==
    [][\A c \in comments : \A d \in comments' :
          d.id = c.id => d.version_number = c.version_number
      ]_vars

\* C12 witness: a comment bound to a version two below currentVersion that has
\* been resolved: cuts and ledger operations ran over it.
C12_Witness ==
    \E c \in comments : \E m \in mockups :
        /\ m.id = c.mockup_id /\ c.version_number + 2 = m.current_version
        /\ c.resolved

C15_DeleteUnknownNotFound ==
    [][\A p \in Procs :
          (/\ DeleteVersionRows(p)
           /\ \/ ~HasMockup(req[p].id)
              \/ VersionsOf(req[p].id, req[p].versionNum) = {}) =>
              /\ DeleteRowsAnswer(req[p].versionNum).status = 404
              /\ UNCHANGED <<mockups, versions, comments>>
      ]_vars

\* C14: a deleteVersion of a version below currentVersion gets past its guard;
\* when its delete call runs on an existing snapshot of such a version it answers
\* success, the version list of the mockup no longer has the version, and every
\* other snapshot, of that mockup and of other mockups, stays as it is.
C14_DeleteRemovesOnlyThatVersion ==
    [][\A p \in Procs : \A i \in TwoMockupIds : \A n \in VersionNumbers :
          /\ (/\ DeleteSelectMockup(p, i, n) /\ HasMockup(i)
               /\ n < MockupRow(i).current_version) =>
                   (req'[p].op = "deleteVersion" /\ req'[p].id = i /\ req'[p].versionNum = n)
          /\ (/\ DeleteVersionRows(p) /\ req[p].id = i /\ req[p].versionNum = n
               /\ HasMockup(i) /\ n < MockupRow(i).current_version
               /\ VersionsOf(i, n) # {}) =>
                   /\ DeleteRowsAnswer(n).success /\ DeleteRowsAnswer(n).deletedVersion = n
                   /\ n \notin {e.versionNumber : e \in ListVersions(i)'}
                   /\ \A s \in versions :
                         (s.mockup_id # i \/ s.version_number # n) => s \in versions'
                   /\ versions' \subseteq versions
      ]_vars

\* C14 witness: a mockup past version 1 whose snapshot of version 1 is gone while
\* the other mockup still has its snapshot of version 1.
C14_Witness ==
    \E m \in mockups : \E s \in versions :
        /\ m.current_version > 1 /\ VersionsOf(m.id, 1) = {}
        /\ s.mockup_id # m.id /\ s.version_number = 1

\* the version parameters a read may carry
VersionParams == {NoVersion, CurrentParam} \cup VersionNumbers

\* p's read is answered in this step (a read that passed the gate)
ReadAnswered(p) ==
    req[p].op = "read" /\ req'[p] = Idle

\* C16: every read answered success has raised the stored views by one: with no
\* read of a mockup in flight, its views equal the number of its reads answered
\* success, whatever version they asked for.
C16_EveryReadCounts ==
    \A m \in mockups :
        (\A p \in Procs : ~(req[p].op = "read" /\ req[p].id = m.id)) =>
            m.views = reads[m.id]

\* C17: no views write is lost: every views write the store applies leaves the
\* stored views one above what they were.
C17_NoLostViewUpdate ==
    [][\A p \in Procs : \A i \in MockupIds :
          (ReadUpdateViews(p, FALSE) /\ req[p].id = i /\ HasMockup(i)) =>
              MockupRow(i)'.views = MockupRow(i).views + 1
      ]_vars

\* C18: a read of a mockup with a password_hash is answered passwordProtected
\* when it carries no password and 401 Invalid password when its password's hash
\* differs; either answer has no data and the step changes nothing.
C18_PasswordGate ==
    [][\A p \in Procs : \A i \in MockupIds : \A w \in Passwords \cup {NoPassword} :
       \A v \in VersionParams :
          (/\ req[p] = Idle /\ HasMockup(i)
           /\ MockupRow(i).password_hash # NullHash
           /\ (w = NoPassword \/ hashPassword(w) # MockupRow(i).password_hash)
           /\ ReadSelectMockup(p, i, w, v)) =>
              /\ ReadRejected(i, w)
              /\ ReadRejection(i, w) =
                     IF w = NoPassword THEN PasswordRequiredAnswer ELSE InvalidPasswordAnswer
              /\ ~ReadRejection(i, w).success
              /\ "data" \notin DOMAIN ReadRejection(i, w)
              /\ UNCHANGED vars
      ]_vars

\* C18 witness: a mockup with a password_hash that has been read once, and a
\* free request slot: a read without or with another password meets the gate.
C18_Witness ==
    \E m \in mockups : \E p \in Procs :
        /\ m.password_hash = hashPassword("pw1") /\ m.views = 1 /\ reads[m.id] = 1
        /\ req[p] = Idle

\* C19: a read without a password passes the gate exactly when the mockup exists
\* and has no password_hash, and a read that passed the gate is answered success;
\* a mockup created without a password has no password_hash, and only an update
\* that carries a password gives it one.
C19_PublicWithoutHash ==
    [][/\ \A i \in MockupIds :
             /\ ~ReadRejected(i, NoPassword) <=>
                    (HasMockup(i) /\ MockupRow(i).password_hash = NullHash)
             /\ \A p \in Procs : \A v \in VersionParams :
                    (ReadSelectMockup(p, i, NoPassword, v) /\ ~ReadRejected(i, NoPassword)) =>
                        (req'[p].op = "read" /\ req'[p].id = i)
             /\ \A d \in Contents :
                    (CreateMockup(i, d, NoPassword) /\ HasMockup(i)') =>
                        MockupRow(i)'.password_hash = NullHash
             /\ (/\ HasMockup(i) /\ HasMockup(i)'
                 /\ MockupRow(i).password_hash = NullHash
                 /\ MockupRow(i)'.password_hash # NullHash) =>
                    \E d \in Contents : \E w \in Passwords : UpdateMockup(i, d, w)
       /\ \A p \in Procs :
             ReadAnswered(p) =>
                 /\ ReadAnswer(req[p].mockup, req[p].version, req[p].versionsData,
                               VersionsOf(req[p].id, req[p].version)).success
                 /\ reads'[req[p].id] = reads[req[p].id] + 1
      ]_vars

\* C19 witness: a mockup without a password_hash whose content was replaced and
\* that was read twice.
C19_Witness ==
    \E m \in mockups :
        m.password_hash = NullHash /\ m.views = 2 /\ reads[m.id] = 2

\* C20: an update that carries a password stores the hash of that password; no
\* other step changes a mockup's password_hash, so an update without a password
\* leaves it as it is.
C20_UpdatePassword ==
    [][\A i \in MockupIds :
          (HasMockup(i) /\ HasMockup(i)') =>
              /\ \A d \in Contents : \A w \in Passwords :
                    UpdateMockup(i, d, w) => MockupRow(i)'.password_hash = hashPassword(w)
              /\ \A d \in Contents :
                    UpdateMockup(i, d, NoPassword) =>
                        MockupRow(i)'.password_hash = MockupRow(i).password_hash
              /\ MockupRow(i)'.password_hash # MockupRow(i).password_hash =>
                    \E d \in Contents : \E w \in Passwords :
                        /\ UpdateMockup(i, d, w)
                        /\ MockupRow(i)'.password_hash = hashPassword(w)
      ]_vars

\* C20 witness: a mockup whose password_hash is that of the password an update
\* carried, read once since.
C20_Witness ==
    \E m \in mockups :
        m.password_hash = hashPassword("pw2") /\ m.views = 1 /\ reads[m.id] = 1

\* C21: an update replaces the data (and, with a password, the password_hash) of
\* the mockup it names and nothing else: current_version and views stay, no
\* mockup appears or goes, no snapshot and no comment is added, removed or changed.
C21_UpdateOnlyContent ==
    [][\A i \in MockupIds : \A d \in Contents : \A w \in Passwords \cup {NoPassword} :
          UpdateMockup(i, d, w) =>
              /\ versions' = versions
              /\ comments' = comments
              /\ {m.id : m \in mockups'} = {m.id : m \in mockups}
              /\ \A m \in mockups : \A n \in mockups' :
                    n.id = m.id =>
                        /\ n.current_version = m.current_version
                        /\ n.views = m.views
                        /\ IF m.id = i THEN n.data = StoredData(d) ELSE n = m
      ]_vars

\* C21 witness: the live content was replaced after a cut: it differs from the
\* content of the snapshot of the version before, and a comment of the current
\* version is stored.
C21_Witness ==
    \E m \in mockups : \E s \in versions : \E c \in comments :
        /\ s.mockup_id = m.id /\ s.version_number + 1 = m.current_version
        /\ m.data = "c2" /\ s.data = "c1"
        /\ c.mockup_id = m.id /\ c.version_number = m.current_version

\* C22: an update that names no stored mockup is answered 404, not success.
C22_UpdateUnknownNotFound ==
    \A i \in MockupIds :
        ~HasMockup(i) => (UpdateAnswer(i).status = 404 /\ ~UpdateAnswer(i).success)

C25_UnknownCommentNotFound ==
    \A i \in LedgerCommentIds :
        (\A c \in comments : c.id # i) =>
            \A t \in Tokens \cup {NoToken} :
                /\ EditAnswer(i, t).status = 404
                /\ RemoveAnswer(i, t).status = 404
                /\ ResolveAnswer.status = 404

\* C26: a remove that supplies no token, or a token other than the stored
\* author_token, is answered 403 and the comment stays (no request is told from
\* the designer's: the handler reads no credential).
C26_RemoveNeedsToken ==
    [][\A c \in comments : \A t \in Tokens \cup {NoToken} :
          t # c.author_token =>
              /\ RemoveAnswer(c.id, t).status = 403
              /\ RemoveComment(c.id, t) => comments' = comments
      ]_vars

\* a step of the handler of owner operation op
OwnerStep(op) ==
    CASE op = "create" -> \E i \in MockupIds, d \in Contents : CreateMockup(i, d, NoPassword)
      [] op = "update" -> \E i \in MockupIds, d \in Contents : UpdateMockup(i, d, NoPassword)
      [] op = "cut" -> \E p \in Procs, f \in BOOLEAN :
                           CutInsertVersion(p, f) \/ CutUpdateVersion(p, f)
      [] op = "deleteMockup" -> \E i \in MockupIds : DeleteMockup(i)
      [] op = "removeAll" -> \E i \in MockupIds : RemoveAllComments(i)
      [] op = "resolve" -> \E c \in CommentIds, r \in BOOLEAN : ResolveComment(c, r)
      [] op = "deleteVersion" -> \E p \in Procs : DeleteVersionRows(p)

\* C27: a request of an owner operation that carries no valid owner
\* authentication changes no table.
C27_OwnerOperationsNeedAuth ==
    [][\A op \in OwnerOps :
          (Admitted(op, FALSE) /\ OwnerStep(op)) => UNCHANGED <<mockups, versions, comments>>
      ]_vars

C29_CutIsCheckpoint ==
    [][\A p \in Procs :
          ((req[p].op = "cut" \/ req'[p].op = "cut") /\ req'[p] # req[p]) =>
              \A m \in mockups :
                  \E n \in mockups' :
                      /\ n.id = m.id /\ n.data = m.data
                      /\ n.password_hash = m.password_hash /\ n.views = m.views
                      /\ ReadAnswer(ReadLocals(n), NoVersion, {}, {}).data =
                             ReadAnswer(ReadLocals(m), NoVersion, {}, {}).data
      ]_vars

\* C29 witness: a read selected the mockup at version 1 with views 1 and has not
\* written yet; the mockup, with a password_hash, is at version 2 with views 1:
\* the cut advanced the version over those views.
C29_Witness ==
    \E p \in Procs : \E m \in mockups :
        /\ req[p].op = "read" /\ req[p].pc = "updateViews" /\ req[p].id = m.id
        /\ req[p].mockup.current_version = 1 /\ req[p].mockup.views = 1
        /\ m.current_version = 2 /\ m.views = 1 /\ cuts[m.id] = 1
        /\ m.password_hash # NullHash

\* C30: a read right after create(d) is answered with data d, currentVersion 1
\* and viewingVersion 1, for every document d; and the row a read answers from
\* is the stored row.
C30_RoundTrip ==
    [][\A i \in MockupIds :
          /\ \A d \in JsonDocuments :
                CreateMockup(i, d, NoPassword) =>
                    \A n \in mockups' :
                        n.id = i =>
                            /\ ReadAnswer(ReadLocals(n), NoVersion, {}, {}).data = d
                            /\ ReadAnswer(ReadLocals(n), NoVersion, {}, {}).currentVersion = 1
                            /\ ReadAnswer(ReadLocals(n), NoVersion, {}, {}).viewingVersion = 1
          /\ \A p \in Procs :
                (req[p] = Idle /\ req'[p] # Idle /\ req'[p].op = "read" /\ req'[p].id = i) =>
                    \A m \in mockups : m.id = i => req'[p].mockup = ReadLocals(m)
      ]_vars

\* the archive rows a read in flight answers its version list from: those its
\* select of this step returns, or those it selected before
ReadVersionsData(p) ==
    IF req[p].pc = "selectVersions"
      THEN {s \in versions : s.mockup_id = req[p].id}
      ELSE req[p].versionsData

\* what p's read is answered in this step
ReadAnswerOf(p) ==
    ReadAnswer(req[p].mockup, req[p].version, ReadVersionsData(p),
               VersionsOf(req[p].id, req[p].version))

\* C31: a read that asks for a version below currentVersion of which a snapshot
\* is stored is answered with the data of a snapshot of that version and names
\* that version; a read of the current version is answered with the live data.
C31_ArchivedReadReturnsSnapshot ==
    [][\A p \in Procs :
          /\ (/\ ReadSelectVersion(p)
              /\ req[p].version < req[p].mockup.current_version
              /\ VersionsOf(req[p].id, req[p].version) # {}) =>
                  /\ ReadAnswerOf(p).viewingVersion = req[p].version
                  /\ \E s \in VersionsOf(req[p].id, req[p].version) :
                        ReadAnswerOf(p).data = s.data
          /\ (ReadSelectVersions(p) /\ req'[p] = Idle) =>
                  ReadAnswerOf(p).data = req[p].mockup.data
      ]_vars

\* C32: a resolve or remove request whose path names mockup a leaves every
\* comment of another mockup as it is (the handlers read the commentId of the
\* path and never its mockup id, so a step serves every path).
C32_OtherMockupUntouched ==
    [][\A a \in TwoMockupIds : \A c \in comments :
          (HasMockup(a) /\ c.mockup_id # a) =>
              /\ \A r \in BOOLEAN : ResolveComment(c.id, r) => c \in comments'
              /\ \A t \in Tokens \cup {NoToken} : RemoveComment(c.id, t) => c \in comments'
      ]_vars

\* C33: a cut whose select of the live comments fails is answered with a
\* failure in that step: it does not go on to insert an archive row.
C33_FailureSurfaced ==
    [][\A p \in Procs :
          (/\ CutSelectComments(p, TRUE)
           /\ CommentsOf(req[p].id, req[p].currentVersion) # {}) =>
              req'[p] = Idle
      ]_vars

\* C34: in no step do the stored views of a mockup go down.
C34_ViewsMonotone ==
    [][\A m \in mockups : \A n \in mockups' : n.id = m.id => n.views >= m.views]_vars

\* C35: every comment held in a snapshot's comments_snapshot is a comment of the
\* snapshot's mockup with the snapshot's version_number, and the rows a cut is
\* about to archive are those of its mockup and of the version it read.
C35_SnapshotHoldsItsVersion ==
    /\ \A s \in versions : \A c \in s.comments_snapshot :
          c.mockup_id = s.mockup_id /\ c.version_number = s.version_number
    /\ \A p \in Procs :
          (req[p].op = "cut" /\ req[p].pc # "selectComments") =>
              \A c \in req[p].snapshot :
                  c.mockup_id = req[p].id /\ c.version_number = req[p].currentVersion

\* C35 witness: the snapshot of version 2 holds a resolved comment while a
\* comment of version 1 of the same mockup is still stored.
C35_Witness ==
    \E s \in versions : \E c \in s.comments_snapshot : \E d \in comments :
        /\ s.version_number = 2 /\ c.resolved
        /\ d.mockup_id = s.mockup_id /\ d.version_number = 1

\* C36: the version list of a read's answer has the archived entries in strictly
\* ascending versionNumber, none of them marked current, then one entry marked
\* current with the answer's currentVersion, above every archived entry.
C36_VersionListOrdered ==
    [][\A p \in Procs :
          ReadAnswered(p) =>
              LET list == ReadAnswerOf(p).versions
                  n == Len(list)
              IN  /\ n >= 1
                  /\ list[n].isCurrent
                  /\ list[n].versionNumber = ReadAnswerOf(p).currentVersion
                  /\ \A k \in 1 .. n - 1 :
                        /\ ~list[k].isCurrent
                        /\ list[k].versionNumber < list[n].versionNumber
                        /\ k > 1 => list[k - 1].versionNumber < list[k].versionNumber
      ]_vars

\* C37: in the answer of a read, viewingVersion is the answer's currentVersion
\* exactly when the data is the live data the read selected; otherwise it is the
\* version asked for, a snapshot of that version is stored and the data is that
\* snapshot's.
C37_ViewingVersionNamesContent ==
    [][\A p \in Procs :
          ReadAnswered(p) =>
              IF ReadAnswerOf(p).viewingVersion = ReadAnswerOf(p).currentVersion
                THEN ReadAnswerOf(p).data = req[p].mockup.data
                ELSE /\ ReadAnswerOf(p).viewingVersion = req[p].version
                     /\ \E s \in versions :
                           /\ s.mockup_id = req[p].id
                           /\ s.version_number = ReadAnswerOf(p).viewingVersion
                           /\ ReadAnswerOf(p).data = s.data
      ]_vars

\* C37 witness: a read is about to select the snapshot of a version above the
\* current one, of which no snapshot is stored, while a snapshot of another
\* version is.
C37_Witness ==
    \E p \in Procs :
        /\ req[p].op = "read" /\ req[p].pc = "selectVersion"
        /\ VersionsOf(req[p].id, req[p].version) = {}
        /\ req[p].version > req[p].mockup.current_version
        /\ \E s \in versions : s.mockup_id = req[p].id

\* C38: the comment list asked with version=current is answered success with the
\* comments the list without a version is answered with.
C38_CurrentIsNoVersion ==
    \A i \in MockupIds :
        HasMockup(i) =>
            /\ ListComments(i, CurrentParam).success
            /\ ListComments(i, CurrentParam).comments = ListComments(i, NoVersion).comments

\* C39: every stored comment of a mockup is bound to the mockup's
\* current_version, or is held in the snapshot of the version it is bound to.
C39_NoCommentLost ==
    \A c \in comments : \A m \in mockups :
        m.id = c.mockup_id =>
            \/ c.version_number = m.current_version
            \/ \E s \in VersionsOf(m.id, c.version_number) :
                  \E x \in s.comments_snapshot : x.id = c.id

\* C40: after a deleteVersion has deleted the snapshot of version n, the comment
\* list of version n is empty.
C40_DeletedVersionListsNothing ==
    [][\A p \in Procs : \A i \in MockupIds : \A n \in VersionNumbers :
          (/\ DeleteVersionRows(p) /\ req[p].id = i /\ req[p].versionNum = n
           /\ HasMockup(i) /\ VersionsOf(i, n) # {}) =>
              ListComments(i, n)'.comments = {}
      ]_vars

====
